---- MODULE Spec2Model ----
(***************************************************************************)
(* Model of the Logfire dashboard API client                               *)
(* (src/src/logfire_cli/clients/logfire_api.py) and of the response        *)
(* shapes it decodes (src/src/logfire_cli/models/logfire_api.py).          *)
(*                                                                         *)
(* Conventions.                                                            *)
(*  - A Python str is a sequence of atoms; the atom "/" is the slash       *)
(*    character and every other atom is a run of characters without a      *)
(*    slash.  '' is << >>.                                                 *)
(*  - A JSON value / Python object is a tagged record: [t |-> "null"],     *)
(*    [t |-> "str", s |-> str], [t |-> "int", n |-> n],                    *)
(*    [t |-> "obj", f |-> function from key to value],                     *)
(*    [t |-> "arr", q |-> sequence of values].                             *)
(*  - An aiohttp session is a number 1, 2, ...; 0 stands for None.         *)
(***************************************************************************)
EXTENDS Integers, Sequences, FiniteSets, TLC

VARIABLES
    session,   \* LogfireClient._session: 0 (None) or the session it refers to
    opened,    \* number of aiohttp.ClientSession objects constructed so far
    closed,    \* the sessions whose .closed is True
    scopes,    \* one entry per scope entered and not yet left: the session its __aenter__ opened
    left,      \* the scope left most recently: the session it had opened, and how it was left
    last,      \* the operation invocation whose outcome the caller holds: what it sent and
               \* how it ended; NoCall once the caller has moved on
    doc,       \* the document-model call whose outcome the caller holds: the input handed to
               \* model_validate, the instance it gave, and what model_dump made of it
    peer,      \* a second LogfireClient instance, while the first one runs: its _session,
               \* its scopes, the scope it left last and the invocation its caller holds
    cmd        \* the command run whose outcome the caller holds (legacy push, lint, init):
               \* its arguments, what it sent or wrote, and how it ended

vars == <<session, opened, closed, scopes, left, last, doc, peer, cmd>>

(***************************************************************************)
(* Bounds of the model.                                                    *)
(***************************************************************************)
MaxSessions == 3
MaxSlugLen == 1
MaxNameLen == 2
MaxFiles == 2

(***************************************************************************)
(* Strings and URL construction.                                           *)
(***************************************************************************)
Slash == "/"
SlugAtoms == {"a", Slash}

RECURSIVE StrsUpTo(_)
StrsUpTo(n) ==
    IF n = 0 THEN {<< >>}
    ELSE LET shorter == StrsUpTo(n - 1)
         IN  shorter \cup {Append(s, c) : s \in {x \in shorter : Len(x) = n - 1}, c \in SlugAtoms}

Slugs == StrsUpTo(MaxSlugLen)

organization == <<"org">>
project == <<"proj">>
token == <<"test-token">>

\* LogfireClient._headers: the default headers every session is constructed with
HeadersMutant ==
    [Authorization |-> <<"Bearer ">> \o token, ContentType |-> <<"application/json">>]
Headers ==
    [Authorization |-> <<"Bearer ">> \o token,
     ContentType |-> <<"application/json">>,
     UserAgent |-> <<"Mozilla/5.0 (Macintosh; Intel Mac OS X 10_15_7) AppleWebKit/605.1.15 (KHTML, like Gecko) Version/26.2 Safari/605.1.15">>]

\* the headers of a request are the default headers of the session it goes
\* through: __aenter__ constructs each session with headers=self._headers
SessionHeaders(s) == Headers
NoHeaders == [k \in {} |-> << >>]

\* a positional str | None argument of _build_url
Part(s) == [present |-> TRUE, s |-> s]

RECURSIVE Join(_, _)
Join(strs, sep) ==
    IF strs = << >> THEN << >>
    ELSE IF Len(strs) = 1 THEN Head(strs)
    ELSE Head(strs) \o <<sep>> \o Join(Tail(strs), sep)

KeepsPart(p) == p.present /\ p.s # << >>

BuildUrl(parts) ==
    LET kept == SelectSeq(parts, KeepsPart)
    IN  Join([i \in 1..Len(kept) |-> kept[i].s], Slash)

UiApiPrefix ==
    <<Slash, "ui-api", Slash, "organizations", Slash>> \o organization
        \o <<Slash, "projects", Slash>> \o project

BuildUiApiUrl(parts) == BuildUrl(<<Part(UiApiPrefix)>> \o parts)

CollectionUrl == BuildUiApiUrl(<<Part(<<"dashboards">>)>>) \o <<Slash>>
ResourceUrlMutant(slug) == BuildUiApiUrl(<<Part(<<"dashboards">>), Part(slug)>>)
ResourceUrl(slug) == BuildUiApiUrl(<<Part(<<"dashboards">>), Part(slug)>>) \o <<Slash>>

\* the segments of a path: the runs between slashes
RECURSIVE Split(_)
Split(s) ==
    IF \A i \in 1..Len(s) : s[i] # Slash THEN <<s>>
    ELSE LET k == CHOOSE i \in 1..Len(s) : s[i] = Slash /\ \A j \in 1..(i - 1) : s[j] # Slash
         IN  <<SubSeq(s, 1, k - 1)>> \o Split(SubSeq(s, k + 1, Len(s)))

(***************************************************************************)
(* JSON values and the pydantic shapes of models/logfire_api.py.           *)
(***************************************************************************)
JNull == [t |-> "null"]
JStr(s) == [t |-> "str", s |-> s]
JInt(n) == [t |-> "int", n |-> n]
JObj(f) == [t |-> "obj", f |-> f]
JArr(q) == [t |-> "arr", q |-> q]
Missing == [t |-> "missing"]
\* a value that JSON has no type for: a date or a datetime, as a YAML loader
\* makes of an unquoted timestamp
JDate(s) == [t |-> "date", s |-> s]
EmptyMap == [k \in {} |-> JNull]

Valid(v) == [ok |-> TRUE, v |-> v]
Invalid == [ok |-> FALSE, v |-> JNull]

Has(o, k) == k \in DOMAIN o.f
\* populate_by_name=True: the alias is read first, then the field name
FieldMutant(o, alias, name, default) == IF Has(o, name) THEN o.f[name] ELSE default
Field(o, alias, name, default) ==
    IF Has(o, alias) THEN o.f[alias] ELSE IF Has(o, name) THEN o.f[name] ELSE default

IsStr(j) == j.t = "str"
IsOptStr(j) == j.t \in {"str", "null"}
IsOptInt(j) == j.t \in {"int", "null"}
IsDict(j) == j.t = "obj"
IsList(j) == j.t = "arr"

UuidTexts == {<<"d87a3b26-4100-4026-9b42-ee4bbffe215e">>, <<"4fbc915c-7847-4088-8516-05a1026b2b47">>}
DatetimeTexts == {<<"2025-12-16T04:37:26.837478Z">>}
IsUuid(j) == j.t = "str" /\ j.s \in UuidTexts
\* pydantic reads a datetime from an ISO 8601 string or from a number (a unix time)
IsDatetime(j) == (j.t = "str" /\ j.s \in DatetimeTexts) \/ j.t = "int"
IsOptDatetime(j) == j.t = "null" \/ IsDatetime(j)

DashboardMetadata(j) ==
    IF ~IsDict(j) THEN Invalid
    ELSE LET name == Field(j, "name", "name", Missing)
             proj == Field(j, "project", "project", JNull)
             version == Field(j, "version", "version", JNull)
             created_at == Field(j, "createdAt", "created_at", JNull)
             updated_at == Field(j, "updatedAt", "updated_at", JNull)
         IN  IF IsStr(name) /\ IsOptStr(proj) /\ IsOptInt(version)
                  /\ IsOptStr(created_at) /\ IsOptStr(updated_at)
             THEN Valid(JObj([name |-> name, project |-> proj, version |-> version,
                              created_at |-> created_at, updated_at |-> updated_at]))
             ELSE Invalid

DashboardDisplay(j) ==
    IF ~IsDict(j) THEN Invalid
    ELSE LET name == Field(j, "name", "name", Missing)
             description == Field(j, "description", "description", JNull)
         IN  IF IsStr(name) /\ IsOptStr(description)
             THEN Valid(JObj([name |-> name, description |-> description]))
             ELSE Invalid

DashboardSpec(j) ==
    IF ~IsDict(j) THEN Invalid
    ELSE LET display == DashboardDisplay(Field(j, "display", "display", Missing))
             datasources == Field(j, "datasources", "datasources", JObj(EmptyMap))
             panels == Field(j, "panels", "panels", JObj(EmptyMap))
             layouts == Field(j, "layouts", "layouts", JArr(<< >>))
             variables == Field(j, "variables", "variables", JArr(<< >>))
             duration == Field(j, "duration", "duration", JStr(<<"1h">>))
             refresh_interval == Field(j, "refreshInterval", "refresh_interval", JStr(<<"0s">>))
         IN  IF display.ok /\ IsDict(datasources) /\ IsDict(panels) /\ IsList(layouts)
                  /\ IsList(variables) /\ IsStr(duration) /\ IsStr(refresh_interval)
             THEN Valid(JObj([display |-> display.v, datasources |-> datasources,
                              panels |-> panels, layouts |-> layouts, variables |-> variables,
                              duration |-> duration, refresh_interval |-> refresh_interval]))
             ELSE Invalid

\* Dashboard.model_validate: fields the model does not declare are ignored
Dashboard(j) ==
    IF ~IsDict(j) THEN Invalid
    ELSE LET kind == Field(j, "kind", "kind", JStr(<<"Dashboard">>))
             metadata == DashboardMetadata(Field(j, "metadata", "metadata", Missing))
             spec == DashboardSpec(Field(j, "spec", "spec", Missing))
         IN  IF IsStr(kind) /\ metadata.ok /\ spec.ok
             THEN Valid(JObj([kind |-> kind, metadata |-> metadata.v, spec |-> spec.v]))
             ELSE Invalid

ItemFields ==
    {"id", "project_id", "created_at", "updated_at", "created_by_name", "updated_by_name",
     "dashboard_name", "dashboard_slug"}

\* the fields ListDashboardItem and DashboardResponse share; extra='forbid' is
\* checked by the caller, which knows the full field set
ServerFields(j, updatedByDefault) ==
    LET id == Field(j, "id", "id", Missing)
        project_id == Field(j, "project_id", "project_id", Missing)
        created_at == Field(j, "created_at", "created_at", Missing)
        updated_at == Field(j, "updated_at", "updated_at", JNull)
        created_by_name == Field(j, "created_by_name", "created_by_name", Missing)
        updated_by_name == Field(j, "updated_by_name", "updated_by_name", updatedByDefault)
        dashboard_name == Field(j, "dashboard_name", "dashboard_name", Missing)
        dashboard_slug == Field(j, "dashboard_slug", "dashboard_slug", Missing)
    IN  IF IsUuid(id) /\ IsUuid(project_id) /\ IsDatetime(created_at) /\ IsOptDatetime(updated_at)
             /\ IsStr(created_by_name) /\ IsOptStr(updated_by_name)
             /\ IsStr(dashboard_name) /\ IsStr(dashboard_slug)
        THEN Valid([id |-> id, project_id |-> project_id, created_at |-> created_at,
                    updated_at |-> updated_at, created_by_name |-> created_by_name,
                    updated_by_name |-> updated_by_name, dashboard_name |-> dashboard_name,
                    dashboard_slug |-> dashboard_slug])
        ELSE Invalid

\* updated_by_name is declared Field(...): it may be null but has no default
ListDashboardItemMutant(j) ==
    IF ~IsDict(j) THEN Invalid
    ELSE LET r == ServerFields(j, Missing)
         IN  IF r.ok THEN Valid(JObj(r.v)) ELSE Invalid
ListDashboardItem(j) ==
    IF ~IsDict(j) \/ ~(DOMAIN j.f \subseteq ItemFields) THEN Invalid
    ELSE LET r == ServerFields(j, Missing)
         IN  IF r.ok THEN Valid(JObj(r.v)) ELSE Invalid

ListDashboards(j) ==
    IF ~IsList(j) THEN Invalid
    ELSE LET items == [i \in 1..Len(j.q) |-> ListDashboardItem(j.q[i])]
         IN  IF \A i \in 1..Len(items) : items[i].ok
             THEN Valid(JArr([i \in 1..Len(items) |-> items[i].v]))
             ELSE Invalid

GetDashboardResponse(j) ==
    IF ~IsDict(j) \/ ~(DOMAIN j.f \subseteq {"dashboard"}) THEN Invalid
    ELSE LET dashboard == Dashboard(Field(j, "dashboard", "dashboard", Missing))
         IN  IF dashboard.ok THEN Valid(JObj([dashboard |-> dashboard.v])) ELSE Invalid

DashboardResponse(j) ==
    IF ~IsDict(j) \/ ~(DOMAIN j.f \subseteq ItemFields \cup {"definition"}) THEN Invalid
    ELSE LET r == ServerFields(j, JNull)
             definition == Dashboard(Field(j, "definition", "definition", Missing))
         IN  IF r.ok /\ definition.ok
             THEN Valid(JObj([k \in ItemFields \cup {"definition"} |->
                                 IF k = "definition" THEN definition.v ELSE r.v[k]]))
             ELSE Invalid

ModelValidate(model, j) ==
    CASE model = "ListDashboards" -> ListDashboards(j)
      [] model = "GetDashboardResponse" -> GetDashboardResponse(j)
      [] model = "DashboardResponse" -> DashboardResponse(j)

(***************************************************************************)
(* Serialization: model_dump(mode='json', by_alias=True, exclude_none=True) *)
(***************************************************************************)
\* exclude_none drops the None-valued fields of a model; the values of the
\* untyped payloads (dict[str, Any], list[Any]) are emitted as they are
DumpAnyMutant(j) ==
    LET Strip(o) ==
            IF o.t = "obj" THEN JObj([k \in {x \in DOMAIN o.f : o.f[x].t # "null"} |-> o.f[k]])
            ELSE o
    IN  IF j.t = "obj" THEN JObj([k \in DOMAIN Strip(j).f |-> Strip(j.f[k])])
        ELSE IF j.t = "arr"
             THEN JArr([i \in 1..Len(SelectSeq(j.q, LAMBDA x : x.t # "null")) |->
                           Strip(SelectSeq(j.q, LAMBDA x : x.t # "null")[i])])
             ELSE j
\* mode='json' on a value of type Any: a date becomes its ISO text, containers
\* are walked, a JSON value stays as it is
RECURSIVE DumpAny(_)
DumpAny(j) ==
    CASE j.t = "date" -> JStr(j.s)
      [] j.t = "obj" -> JObj([k \in DOMAIN j.f |-> DumpAny(j.f[k])])
      [] j.t = "arr" -> JArr([i \in 1..Len(j.q) |-> DumpAny(j.q[i])])
      [] OTHER -> j

\* the wire name of each field of a document model
WireNameMutant(name) == name
WireName(name) ==
    CASE name = "created_at" -> "createdAt"
      [] name = "updated_at" -> "updatedAt"
      [] name = "refresh_interval" -> "refreshInterval"
      [] OTHER -> name

\* one model instance: its non-None fields under their wire names, the nested
\* models (metadata, spec, display) dumped likewise
RECURSIVE DumpModel(_)
DumpModel(inst) ==
    LET names == {n \in DOMAIN inst.f : inst.f[n].t # "null"}
        wires == {WireName(n) : n \in names}
    IN  JObj([w \in wires |->
                 LET n == CHOOSE x \in names : WireName(x) = w
                     v == inst.f[n]
                 IN  IF n \in {"metadata", "spec", "display"} THEN DumpModel(v)
                     ELSE IF n \in {"datasources", "panels", "layouts", "variables"}
                          THEN DumpAny(v)
                          ELSE v])

ModelDump(d) == DumpModel(d)

\* a value holds something json.dumps has no encoding for
RECURSIVE HasDate(_)
HasDate(j) ==
    CASE j.t = "date" -> TRUE
      [] j.t = "obj" -> \E k \in DOMAIN j.f : HasDate(j.f[k])
      [] j.t = "arr" -> \E i \in 1..Len(j.q) : HasDate(j.q[i])
      [] OTHER -> FALSE

\* YAML text, as its node tree: a scalar is plain or quoted
YScalar(s, plain) == [t |-> "scalar", s |-> s, plain |-> plain]
YMap(f) == [t |-> "ymap", f |-> f]
YSeq(q) == [t |-> "yseq", q |-> q]

NullTexts == {<< >>, <<"null">>, <<"~">>}
TimestampTexts == {<<"2024-01-01">>, <<"2024-01-01T00:00:00Z">>, <<"2024-01-02T00:00:00Z">>}
IntText(n) == <<ToString(n)>>
IsIntText(s) == \E n \in 0..9 : s = IntText(n)
IntOf(s) == CHOOSE n \in 0..9 : s = IntText(n)

\* the implicit type of a plain scalar
Resolve(s) ==
    IF s \in NullTexts THEN JNull
    ELSE IF IsIntText(s) THEN JInt(IntOf(s))
    ELSE IF s \in TimestampTexts THEN JDate(s)
    ELSE JStr(s)

\* yaml.safe_load
RECURSIVE YamlLoad(_)
YamlLoad(y) ==
    CASE y.t = "scalar" -> IF y.plain THEN Resolve(y.s) ELSE JStr(y.s)
      [] y.t = "ymap" -> JObj([k \in DOMAIN y.f |-> YamlLoad(y.f[k])])
      [] y.t = "yseq" -> JArr([i \in 1..Len(y.q) |-> YamlLoad(y.q[i])])

\* yaml.dump: a string is written plain only when a plain scalar of that text
\* would be read as a string
RECURSIVE YamlDump(_)
YamlDump(j) ==
    CASE j.t = "str" -> YScalar(j.s, Resolve(j.s).t = "str")
      [] j.t = "int" -> YScalar(IntText(j.n), TRUE)
      [] j.t = "null" -> YScalar(<<"null">>, TRUE)
      [] j.t = "date" -> YScalar(j.s, TRUE)
      [] j.t = "obj" -> YMap([k \in DOMAIN j.f |-> YamlDump(j.f[k])])
      [] j.t = "arr" -> YSeq([i \in 1..Len(j.q) |-> YamlDump(j.q[i])])

\* load_dict_from_yaml: the root must be a mapping (the keys of a mapping are
\* strings here)
load_dict_from_yaml(y) ==
    IF YamlLoad(y).t # "obj" THEN Invalid ELSE Valid(YamlLoad(y))

load_model_from_yaml(y) ==
    IF ~load_dict_from_yaml(y).ok THEN Invalid ELSE Dashboard(load_dict_from_yaml(y).v)

dump_model_to_yaml(inst) == YamlDump(ModelDump(inst))

(***************************************************************************)
(* The documents callers pass and the responses the server may give.       *)
(***************************************************************************)
Doc(name, displayName, description, panels) ==
    JObj([kind |-> JStr(<<"Dashboard">>),
          metadata |-> JObj([name |-> JStr(name), project |-> JNull, version |-> JNull,
                             created_at |-> JNull, updated_at |-> JNull]),
          spec |-> JObj([display |-> JObj([name |-> JStr(displayName), description |-> description]),
                         datasources |-> JObj(EmptyMap), panels |-> panels,
                         layouts |-> JArr(<< >>), variables |-> JArr(<< >>),
                         duration |-> JStr(<<"1h">>), refresh_interval |-> JStr(<<"0s">>)])])

\* a document in wire form with every optional field given but updatedAt, and
\* with opaque payloads that hold null entries and keys no model declares
FullDocJson ==
    JObj([kind |-> JStr(<<"Dashboard">>),
          metadata |-> JObj([name |-> JStr(<<"full">>), project |-> JStr(<<"test-project">>),
                             version |-> JInt(2),
                             createdAt |-> JStr(<<"2024-01-01T00:00:00Z">>)]),
          spec |-> JObj([display |-> JObj([name |-> JStr(<<"Full">>), description |-> JStr(<< >>)]),
                         datasources |-> JObj([ds |-> JObj([default |-> JNull])]),
                         panels |-> JObj([TestPanel |->
                                             JObj([kind |-> JStr(<<"Panel">>), note |-> JNull,
                                                   xUnknown |-> JObj(EmptyMap)])]),
                         layouts |-> JArr(<< JObj([kind |-> JStr(<<"Grid">>), spec |-> JNull]) >>),
                         variables |-> JArr(<< JNull, JObj([name |-> JStr(<<"env">>)]) >>),
                         duration |-> JStr(<< >>),
                         refreshInterval |-> JStr(<<"30s">>)])])

\* the Dashboard arguments callers pass; the last is built the way the tests
\* build theirs, by Dashboard.model_validate of a wire-form document
Docs ==
    << Doc(<<"t1">>, <<"T1">>, JNull, JObj(EmptyMap)),
       Doc(<<"a">>, <<"A">>, JStr(<<"about">>), JObj([p1 |-> JObj([kind |-> JStr(<<"Panel">>)])])),
       Dashboard(FullDocJson).v >>

ItemJson ==
    JObj([id |-> JStr(<<"d87a3b26-4100-4026-9b42-ee4bbffe215e">>),
          project_id |-> JStr(<<"4fbc915c-7847-4088-8516-05a1026b2b47">>),
          created_at |-> JStr(<<"2025-12-16T04:37:26.837478Z">>),
          updated_at |-> JNull,
          created_by_name |-> JStr(<<"strawgate">>),
          updated_by_name |-> JNull,
          dashboard_name |-> JStr(<<"t1">>),
          dashboard_slug |-> JStr(<<"t1">>)])

EnvelopeJson ==
    JObj([k \in ItemFields \cup {"definition"} |->
             IF k = "definition" THEN ModelDump(Docs[1]) ELSE ItemJson.f[k]])

\* a second list item, with the two optional fields given
Item2Json ==
    JObj([id |-> JStr(<<"4fbc915c-7847-4088-8516-05a1026b2b47">>),
          project_id |-> JStr(<<"4fbc915c-7847-4088-8516-05a1026b2b47">>),
          created_at |-> JStr(<<"2025-12-16T04:37:26.837478Z">>),
          updated_at |-> JStr(<<"2025-12-16T04:37:26.837478Z">>),
          created_by_name |-> JStr(<<"strawgate">>),
          updated_by_name |-> JStr(<<"test-user">>),
          dashboard_name |-> JStr(<<"Dashboard 2">>),
          dashboard_slug |-> JStr(<<"dashboard-2">>)])

\* the JSON object o without the keys ks, and with the entry k: v added
Without(o, ks) == JObj([k \in DOMAIN o.f \ ks |-> o.f[k]])
With(o, key, v) == JObj([k \in DOMAIN o.f \cup {key} |-> IF k = key THEN v ELSE o.f[k]])

\* a response body: its raw text, whether the Content-Type is JSON, whether the
\* text is JSON and, if so, the value it parses to
Body(text, jsonType, isJson, value) ==
    [text |-> text, jsonType |-> jsonType, isJson |-> isJson, value |-> value]

Bodies ==
    << Body(<<"upstream unavailable">>, TRUE, FALSE, JNull),
       Body(<<"<html>">>, FALSE, FALSE, JNull),
       Body(<<"{error}">>, TRUE, TRUE, JObj([error |-> JStr(<<"Invalid dashboard">>)])),
       Body(<<"[item]">>, TRUE, TRUE, JArr(<<ItemJson>>)),
       Body(<<"{dashboard}">>, TRUE, TRUE, JObj([dashboard |-> ModelDump(Docs[1])])),
       Body(<<"{envelope}">>, TRUE, TRUE, EnvelopeJson),
       Body(<<"[item, item2]">>, TRUE, TRUE, JArr(<<ItemJson, Item2Json>>)),
       Body(<<"{dashboards: [item, item2]}">>, TRUE, TRUE,
            JObj([dashboards |-> JArr(<<ItemJson, Item2Json>>)])),
       Body(<<"[item without updated_at, updated_by_name]">>, TRUE, TRUE,
            JArr(<<Without(ItemJson, {"updated_at", "updated_by_name"})>>)),
       Body(<<"[item2, item with extra]">>, TRUE, TRUE,
            JArr(<<Item2Json, With(ItemJson, "extra", JInt(1))>>)),
       Body(<<"{dashboard, extra}">>, TRUE, TRUE,
            JObj([dashboard |-> ModelDump(Docs[1]), extra |-> JInt(1)])),
       Body(<<"{envelope with extra}">>, TRUE, TRUE, With(EnvelopeJson, "extra", JInt(1))),
       Body(<<"{envelope of full}">>, TRUE, TRUE, With(EnvelopeJson, "definition", FullDocJson)),
       Body(<<"{dashboard: full}">>, TRUE, TRUE, JObj([dashboard |-> FullDocJson])) >>

\* the bodies that come with every status; the others come with 200 only
ErrorBodies == {1, 2, 3}

Statuses == {200, 204, 302, 401, 403, 404, 500}

\* what the transport does with the one request: a response arrives, the total
\* timeout expires, or the connection fails
Transports == {"response", "timeout", "connection"}

(***************************************************************************)
(* Connection scope.                                                       *)
(***************************************************************************)
NoScope == [valid |-> FALSE, opened |-> 0, exc |-> FALSE]

NoRequest ==
    [sent |-> FALSE, method |-> "none", url |-> << >>, headers |-> NoHeaders, data |-> JNull]
NoResponse == [got |-> FALSE, status |-> 0, body |-> 0, text |-> << >>]
NoMessage == [fmt |-> "none", status |-> 0, text |-> << >>]

\* no document-model call is held
NoDoc ==
    [step |-> "none", model |-> "none", input |-> JNull, ok |-> FALSE, inst |-> JNull,
     wire |-> JNull, back |-> Invalid]

NoCall ==
    [op |-> "none", slug |-> << >>, dashboard |-> 0, depth |-> 0, held |-> 0,
     req |-> NoRequest, requests |-> 0, transport |-> "none", resp |-> NoResponse,
     decoded |-> 0, raised |-> FALSE, exc |-> "none", msg |-> NoMessage, value |-> JNull]

NoPeer == [id |-> 2, session |-> 0, scopes |-> << >>, left |-> NoScope, last |-> NoCall]

NoCmd == [op |-> "none"]

Init ==
    /\ session = 0
    /\ opened = 0
    /\ closed = {}
    /\ scopes = << >>
    /\ left = NoScope
    /\ last = NoCall
    /\ doc = NoDoc
    /\ peer = NoPeer
    /\ cmd = NoCmd

\* LogfireClient.session: the property every request goes through
SessionMutant == [ok |-> TRUE, s |-> session]
Session ==
    IF session = 0 THEN [ok |-> FALSE, s |-> 0] ELSE [ok |-> TRUE, s |-> session]

Idle == last.op = "none"

AEnterMutant ==
    /\ Idle
    /\ opened < MaxSessions
    /\ opened' = opened + 1
    /\ session' = IF peer.session # 0 THEN peer.session ELSE opened + 1
    /\ scopes' = Append(scopes, opened + 1)
    /\ UNCHANGED <<closed, left, last, doc, peer, cmd>>
AEnter ==
    /\ Idle
    /\ opened < MaxSessions
    /\ opened' = opened + 1
    /\ session' = opened + 1
    /\ scopes' = Append(scopes, opened + 1)
    /\ UNCHANGED <<closed, left, last, doc, peer, cmd>>

\* the body of __aexit__
CloseSession ==
    IF session # 0 /\ session \notin closed
    THEN /\ closed' = closed \cup {session}
         /\ session' = 0
    ELSE UNCHANGED <<session, closed>>

Remove(q, i) == SubSeq(q, 1, i - 1) \o SubSeq(q, i + 1, Len(q))

\* a scope is left: normally (exc = FALSE) when its body is done, or with the
\* exception an operation raised in its body (exc = TRUE)
AExit(i, exc) ==
    /\ i \in 1..Len(scopes)
    /\ exc = ~Idle
    /\ exc => last.raised
    /\ CloseSession
    /\ scopes' = Remove(scopes, i)
    /\ left' = [valid |-> TRUE, opened |-> scopes[i], exc |-> exc]
    /\ last' = NoCall
    /\ UNCHANGED <<opened, doc, peer, cmd>>

\* __aexit__ called with no scope entered
AExitBare ==
    /\ Idle
    /\ scopes = << >>
    /\ CloseSession
    /\ UNCHANGED <<opened, scopes, left, last, doc, peer, cmd>>

\* the caller takes the result, or catches the exception, and goes on
Continue ==
    /\ ~Idle
    /\ last' = NoCall
    /\ UNCHANGED <<session, opened, closed, scopes, left, doc, peer, cmd>>

(***************************************************************************)
(* Response classification and the five operations.                        *)
(***************************************************************************)
ClientErrors == {"LogfireClientError", "LogfireAuthenticationError", "LogfireNotFoundError"}

Raise(exc, fmt, status, text) ==
    [raised |-> TRUE, exc |-> exc, msg |-> [fmt |-> fmt, status |-> status, text |-> text],
     value |-> JNull, decoded |-> 0]
Return(value, decoded) ==
    [raised |-> FALSE, exc |-> "none", msg |-> NoMessage, value |-> value, decoded |-> decoded]

\* aiohttp.ClientResponse.ok is "status < 400", not "200 <= status <= 299"
ResponseOk(status) == status < 400

\* response.json(): the Content-Type is checked, then the text is parsed
ResponseJson(body) ==
    IF ~body.jsonType THEN Raise("ContentTypeError", "content-type", 0, << >>)
    ELSE IF ~body.isJson THEN Raise("JSONDecodeError", "json", 0, << >>)
    ELSE Return(body.value, 1)

HandleResponse(status, body, model) ==
    IF status = 401
    THEN Raise("LogfireAuthenticationError", "Invalid or expired authentication token", 0, << >>)
    ELSE IF status = 403
    THEN Raise("LogfireAuthenticationError", "Access denied to this resource", 0, << >>)
    ELSE IF status = 404
    THEN Raise("LogfireNotFoundError", "Not found", 0, << >>)
    ELSE IF ~ResponseOk(status)
    THEN Raise("LogfireClientError", "API request failed with status {status}: {text}",
               status, body.text)
    ELSE LET json_data == ResponseJson(body)
         IN  IF json_data.raised THEN json_data
             ELSE LET m == ModelValidate(model, json_data.value)
                  IN  IF m.ok THEN Return(m.v, 1)
                      ELSE Raise("ValidationError", "validation", 0, << >>)

DeleteSucceededMutant(status) == status \in 200..299
DeleteSucceeded(status) == status = 204

\* the body of "async with self.session.delete(url) as response"
HandleDelete(status) ==
    IF ~DeleteSucceeded(status)
    THEN Raise("LogfireClientError", "Failed to delete resource: {status}", status, << >>)
    ELSE Return(JNull, 0)

\* _get, _post, _put, _delete: self.session is read, one request is made through
\* it, and the response, if one arrives, is handled
Send(method, url, data, model, transport, status, b) ==
    IF ~Session.ok
    THEN [req |-> NoRequest, requests |-> 0, transport |-> "none", resp |-> NoResponse,
          out |-> Raise("RuntimeError",
                        "Session not initialized. Enter the async context manager first.",
                        0, << >>)]
    ELSE LET req == [sent |-> TRUE, method |-> method, url |-> url,
                     headers |-> SessionHeaders(Session.s), data |-> data]
         IN  IF transport = "timeout"
             THEN [req |-> req, requests |-> 1, transport |-> transport, resp |-> NoResponse,
                   out |-> Raise("TimeoutError", "timeout", 0, << >>)]
             ELSE IF transport = "connection"
             THEN [req |-> req, requests |-> 1, transport |-> transport, resp |-> NoResponse,
                   out |-> Raise("ClientConnectionError", "connection", 0, << >>)]
             ELSE [req |-> req, requests |-> 1, transport |-> transport,
                   resp |-> [got |-> TRUE, status |-> status, body |-> b,
                             text |-> Bodies[b].text],
                   out |-> IF method = "DELETE" THEN HandleDelete(status)
                           ELSE HandleResponse(status, Bodies[b], model)]

\* the body create_dashboard and update_dashboard send
RequestDataMutant(slug, dashboard) ==
    JObj([definition |-> ModelDump(dashboard), slug |-> JStr(slug), name |-> JStr(slug)])
RequestData(slug, dashboard) ==
    JObj([definition |-> ModelDump(dashboard), slug |-> JStr(slug),
          name |-> dashboard.f["metadata"].f["name"]])

\* what the operation hands back from the validated response
UnwrapMutant(r, field) == r
Unwrap(r, field) ==
    IF r.out.raised THEN r
    ELSE [r EXCEPT !.out.value = r.out.value.f[field]]

list_dashboards(transport, status, b) ==
    Send("GET", CollectionUrl, JNull, "ListDashboards", transport, status, b)

get_dashboard(slug, transport, status, b) ==
    Unwrap(Send("GET", ResourceUrl(slug), JNull, "GetDashboardResponse", transport, status, b),
           "dashboard")

create_dashboard(slug, dashboard, transport, status, b) ==
    Unwrap(Send("POST", CollectionUrl, RequestData(slug, dashboard), "DashboardResponse",
                transport, status, b),
           "definition")

update_dashboard(slug, dashboard, transport, status, b) ==
    Unwrap(Send("PUT", ResourceUrl(slug), RequestData(slug, dashboard), "DashboardResponse",
                transport, status, b),
           "definition")

delete_dashboard(slug, transport, status, b) ==
    Send("DELETE", ResourceUrl(slug), JNull, "none", transport, status, b)

\* an invocation by the caller: the client's fields are left as they are
InvokedMutant(op, slug, d, r) ==
    /\ Idle
    /\ last' = [op |-> op, slug |-> slug, dashboard |-> d, depth |-> Len(scopes), held |-> session, req |-> r.req, requests |-> r.requests,
                transport |-> r.transport, resp |-> r.resp, decoded |-> r.out.decoded,
                raised |-> r.out.raised, exc |-> r.out.exc, msg |-> r.out.msg,
                value |-> r.out.value]
    /\ session' = IF r.out.raised THEN 0 ELSE session
    /\ UNCHANGED <<opened, closed, scopes, left, doc, peer, cmd>>
Invoked(op, slug, d, r) ==
    /\ Idle
    /\ last' = [op |-> op, slug |-> slug, dashboard |-> d, depth |-> Len(scopes), held |-> session, req |-> r.req, requests |-> r.requests,
                transport |-> r.transport, resp |-> r.resp, decoded |-> r.out.decoded,
                raised |-> r.out.raised, exc |-> r.out.exc, msg |-> r.out.msg,
                value |-> r.out.value]
    /\ UNCHANGED <<session, opened, closed, scopes, left, doc, peer, cmd>>

ListOp(t, st, b) == Invoked("list_dashboards", << >>, 0, list_dashboards(t, st, b))
GetOp(slug, t, st, b) == Invoked("get_dashboard", slug, 0, get_dashboard(slug, t, st, b))
CreateOp(slug, d, t, st, b) ==
    Invoked("create_dashboard", slug, d, create_dashboard(slug, Docs[d], t, st, b))
UpdateOp(slug, d, t, st, b) ==
    Invoked("update_dashboard", slug, d, update_dashboard(slug, Docs[d], t, st, b))
DeleteOp(slug, t, st, b) ==
    Invoked("delete_dashboard", slug, 0, delete_dashboard(slug, t, st, b))

\* the server's part in one request
Answers ==
    {[transport |-> t, status |-> 0, body |-> 1] : t \in Transports \ {"response"}}
        \cup {[transport |-> "response", status |-> 200, body |-> b] : b \in 1..Len(Bodies)}
        \cup {[transport |-> "response", status |-> st, body |-> b] :
                 st \in Statuses \ {200}, b \in ErrorBodies}

Next ==
    \/ AEnter
    \/ \E i \in 1..MaxSessions, exc \in BOOLEAN : AExit(i, exc)
    \/ AExitBare
    \/ Continue
    \/ \E a \in Answers :
          \/ ListOp(a.transport, a.status, a.body)
          \/ \E slug \in Slugs :
                \/ GetOp(slug, a.transport, a.status, a.body)
                \/ DeleteOp(slug, a.transport, a.status, a.body)
                \/ \E d \in 1..Len(Docs) :
                      \/ CreateOp(slug, d, a.transport, a.status, a.body)
                      \/ UpdateOp(slug, d, a.transport, a.status, a.body)

Spec == Init /\ [][Next]_vars

(***************************************************************************)
(* The document model on its own: the caller validates an input, serializes *)
(* the instance it got, and validates the serialization again.             *)
(***************************************************************************)
\* the JSON object with the entries of r that are not left out
Present(r) == JObj([k \in {x \in DOMAIN r : r[x].t # "missing"} |-> r[k]])

\* an aliased field is given under its wire name, under its field name, or not
\* at all
UnderOneName(r, wire, name) == r[wire].t = "missing" \/ r[name].t = "missing"

MetadataInputs ==
    {Present(r) :
        r \in {x \in [name : {JStr(<<"t1">>)},
                      project : {Missing, JStr(<<"test-project">>)},
                      version : {JNull, JInt(2)},
                      createdAt : {Missing, JStr(<<"2024-01-01T00:00:00Z">>)},
                      created_at : {Missing, JStr(<<"2024-01-01T00:00:00Z">>)},
                      updated_at : {Missing, JStr(<<"2024-01-02T00:00:00Z">>)}] :
                  UnderOneName(x, "createdAt", "created_at")}}

DisplayInputs ==
    {Present(r) : r \in [name : {JStr(<<"T1">>)}, description : {Missing, JStr(<< >>)}]}

SpecInputs ==
    {Present(r) :
        r \in {x \in [display : DisplayInputs,
                      panels : {Missing, JObj(EmptyMap), FullDocJson.f["spec"].f["panels"]},
                      layouts : {Missing, JArr(<< >>)},
                      variables : {FullDocJson.f["spec"].f["variables"]},
                      duration : {Missing, JStr(<< >>)},
                      refreshInterval : {Missing, JStr(<<"30s">>)},
                      refresh_interval : {Missing, JStr(<<"30s">>)}] :
                  UnderOneName(x, "refreshInterval", "refresh_interval")}}

\* a list item as the server may send it: a required field is well-formed, left
\* out or null; updated_at and updated_by_name are left out, null or given
ItemInputs ==
    {Present(r) :
        r \in [id : {ItemJson.f["id"], Missing, JNull},
               project_id : {ItemJson.f["project_id"], Missing, JNull},
               created_at : {ItemJson.f["created_at"], Missing, JNull},
               updated_at : {Item2Json.f["updated_at"], Missing, JNull},
               created_by_name : {ItemJson.f["created_by_name"], Missing, JNull},
               updated_by_name : {Item2Json.f["updated_by_name"], Missing, JNull},
               dashboard_name : {ItemJson.f["dashboard_name"], Missing, JNull},
               dashboard_slug : {ItemJson.f["dashboard_slug"], Missing, JNull}]}

KindInputs == {Missing, JStr(<<"Dashboard">>), JStr(<<"Panel">>), JInt(1)}

DashboardInputs ==
    {Present(r) : r \in [kind : KindInputs, metadata : MetadataInputs, spec : SpecInputs]}

\* Dashboard.model_validate(j)
ValidateDashboard(j) ==
    /\ doc.step = "none"
    /\ doc' = [NoDoc EXCEPT !.step = "validated", !.model = "Dashboard", !.input = j,
                            !.ok = Dashboard(j).ok, !.inst = Dashboard(j).v]
    /\ UNCHANGED <<session, opened, closed, scopes, left, last, peer, cmd>>

\* ListDashboardItem.model_validate(j), as ListDashboards does for each element
ValidateListItem(j) ==
    /\ doc.step = "none"
    /\ doc' = [NoDoc EXCEPT !.step = "validated", !.model = "ListDashboardItem", !.input = j,
                            !.ok = ListDashboardItem(j).ok, !.inst = ListDashboardItem(j).v]
    /\ UNCHANGED <<session, opened, closed, scopes, left, last, peer, cmd>>

\* dashboard.model_dump(mode='json', by_alias=True, exclude_none=True)
DumpDashboard ==
    /\ doc.step = "validated"
    /\ doc.model = "Dashboard"
    /\ doc.ok
    /\ doc' = [doc EXCEPT !.step = "dumped", !.wire = ModelDump(doc.inst)]
    /\ UNCHANGED <<session, opened, closed, scopes, left, last, peer, cmd>>

\* Dashboard.model_validate of what model_dump gave
RevalidateDashboard ==
    /\ doc.step = "dumped"
    /\ doc' = [doc EXCEPT !.step = "revalidated", !.back = Dashboard(doc.wire)]
    /\ UNCHANGED <<session, opened, closed, scopes, left, last, peer, cmd>>

YPresent(r) == YMap([k \in {x \in DOMAIN r : r[x].t # "missing"} |-> r[k]])

\* dashboard files as a user writes them: a timestamp quoted or not, an empty
\* description, a date inside a panel; and a file whose root is a list
YamlInputs ==
    {YPresent(r) :
        r \in [kind : {Missing, YScalar(<<"Dashboard">>, TRUE)},
               metadata :
                   {YPresent(m) :
                       m \in [name : {YScalar(<<"t1">>, TRUE)},
                              version : {Missing, YScalar(<<"2">>, TRUE)},
                              createdAt : {Missing, YScalar(<<"2024-01-01T00:00:00Z">>, FALSE),
                                           YScalar(<<"2024-01-01">>, TRUE)}]},
               spec :
                   {YPresent(p) :
                       p \in [display :
                                  {YPresent(d) :
                                      d \in [name : {YScalar(<<"T1">>, TRUE)},
                                             description : {Missing, YScalar(<< >>, FALSE)}]},
                              panels :
                                  {Missing,
                                   YMap([k \in {"p"} |-> YMap([x \in {"since"} |-> YScalar(<<"2024-01-01">>, TRUE)])]),
                                   YMap([k \in {"p"} |-> YMap([x \in {"since"} |-> YScalar(<<"2024-01-01">>, FALSE)])])},
                              variables : {Missing, YSeq(<<YScalar(<<"~">>, TRUE), YScalar(<<"1h">>, TRUE)>>)}]}]}
    \cup {YSeq(<<YScalar(<<"1">>, TRUE)>>)}

\* load_model_from_yaml(path, Dashboard) on a file the user wrote
LoadYaml(y) ==
    /\ doc.step = "none"
    /\ doc' = [NoDoc EXCEPT !.step = "loaded", !.model = "Dashboard", !.input = y,
                            !.ok = load_model_from_yaml(y).ok, !.inst = load_model_from_yaml(y).v]
    /\ UNCHANGED <<session, opened, closed, scopes, left, last, peer, cmd>>

\* dump_model_to_yaml_file(dashboard, path)
WriteYaml ==
    /\ doc.step \in {"validated", "loaded"}
    /\ doc.model = "Dashboard"
    /\ doc.ok
    /\ doc' = [doc EXCEPT !.step = "written", !.wire = dump_model_to_yaml(doc.inst)]
    /\ UNCHANGED <<session, opened, closed, scopes, left, last, peer, cmd>>

\* load_model_from_yaml(path, Dashboard) on the file just written
ReadBack ==
    /\ doc.step = "written"
    /\ doc' = [doc EXCEPT !.step = "read", !.back = load_model_from_yaml(doc.wire)]
    /\ UNCHANGED <<session, opened, closed, scopes, left, last, peer, cmd>>

\* the caller drops what it holds
Discard ==
    /\ doc.step # "none"
    /\ doc' = NoDoc
    /\ UNCHANGED <<session, opened, closed, scopes, left, last, peer, cmd>>

DocNext ==
    \/ doc.step = "none" /\ \E j \in DashboardInputs : ValidateDashboard(j)
    \/ doc.step = "none" /\ \E j \in ItemInputs : ValidateListItem(j)
    \/ DumpDashboard
    \/ RevalidateDashboard
    \/ doc.step = "none" /\ \E y \in YamlInputs : LoadYaml(y)
    \/ WriteYaml
    \/ ReadBack
    \/ Discard

DocSpec == Init /\ [][DocNext]_vars

\* ---------------------------------------------------------------------------
\* Two clients, each used by its own task.  session, scopes, left and last are
\* those of the client whose task is running, peer holds those of the other
\* client; opened and closed are about all sessions.

\* the event loop goes over to the other task
Switch ==
    /\ session' = peer.session
    /\ scopes' = peer.scopes
    /\ left' = peer.left
    /\ last' = peer.last
    /\ peer' = [id |-> 3 - peer.id, session |-> session, scopes |-> scopes, left |-> left,
                last |-> last]
    /\ UNCHANGED <<opened, closed, doc, cmd>>

\* the server's part in the requests of the two tasks
PairAnswers ==
    {[transport |-> "timeout", status |-> 0, body |-> 1],
     [transport |-> "response", status |-> 200, body |-> 4],
     [transport |-> "response", status |-> 200, body |-> 5],
     [transport |-> "response", status |-> 404, body |-> 1]}

PairNext ==
    \/ AEnter
    \/ \E i \in 1..MaxSessions, exc \in BOOLEAN : AExit(i, exc)
    \/ AExitBare
    \/ Continue
    \/ \E a \in PairAnswers :
          \/ ListOp(a.transport, a.status, a.body)
          \/ GetOp(<<"a">>, a.transport, a.status, a.body)
    \/ Switch

PairSpec == Init /\ [][PairNext]_vars

\* ---------------------------------------------------------------------------
\* The commands that work on dashboard files: the legacy client's push, and
\* the lint and init commands.  A name or a slug is a sequence of characters.

NameAtoms == {"A", "a", " ", "_", "-"}
Names == UNION {[1..n -> NameAtoms] : n \in 0..MaxNameLen}

\* str.lower() and str.replace(a, b) for one character
Lower(s) == [i \in 1..Len(s) |-> IF s[i] = "A" THEN "a" ELSE s[i]]
Replace(s, a, b) == [i \in 1..Len(s) |-> IF s[i] = a THEN b ELSE s[i]]

\* name.lower().replace(' ', '-').replace('_', '-')
SlugOfName(name) == Replace(Replace(Lower(name), " ", "-"), "_", "-")

\* an optional argument: not given (None), or the text given
NotGiven == [given |-> FALSE, s |-> << >>]
Given(s) == [given |-> TRUE, s |-> s]

\* how a command ends
CmdRaise(exc, msg) == [raised |-> TRUE, exc |-> exc, msg |-> msg, requests |-> 0, url |-> << >>,
                       data |-> JNull, value |-> JNull]

\* the legacy client's _dashboard_url
LegacyBase ==
    <<"/ui-api/organizations/">> \o organization \o <<"/projects/">> \o project \o <<"/dashboards">>
LegacyDashboardUrl(slug) ==
    IF slug # << >> THEN LegacyBase \o <<"/">> \o slug \o <<"/">> ELSE LegacyBase \o <<"/">>

\* the legacy client's _handle_response, on a response whose body is JSON
LegacyHandleResponse(status, url, data) ==
    LET sent == [CmdRaise("none", << >>) EXCEPT !.requests = 1, !.url = url, !.data = data]
    IN  IF status = 401
        THEN [sent EXCEPT !.exc = "LogfireAuthenticationError",
                          !.msg = <<"Invalid or expired authentication token">>]
        ELSE IF status = 403
        THEN [sent EXCEPT !.exc = "LogfireAuthenticationError",
                          !.msg = <<"Access denied to this resource">>]
        ELSE IF status = 404
        THEN [sent EXCEPT !.exc = "LogfireNotFoundError", !.msg = <<"Dashboard not found">>]
        ELSE IF ~ResponseOk(status)
        THEN [sent EXCEPT !.exc = "LogfireClientError",
                          !.msg = <<"API request failed with status ", ToString(status), ": ">>]
        ELSE [sent EXCEPT !.raised = FALSE, !.value = EnvelopeJson]

\* the legacy client's put_dashboard: json.dumps comes before the request
put_dashboard(slug, definition, status) ==
    IF HasDate(definition)
    THEN CmdRaise("TypeError", <<"Object of type date is not JSON serializable">>)
    ELSE LegacyHandleResponse(status, LegacyDashboardUrl(slug),
                              JObj([k \in {"definition"} |-> definition]))

\* bool(x) is False
Falsy(j) ==
    \/ j.t = "null"
    \/ j.t = "str" /\ j.s = << >>
    \/ j.t = "int" /\ j.n = 0
    \/ j.t = "obj" /\ DOMAIN j.f = {}
    \/ j.t = "arr" /\ j.q = << >>

\* dict.get(key, default)
Get(o, key, default) == IF key \in DOMAIN o.f THEN o.f[key] ELSE default

\* the legacy client's push(yaml_path, slug)
push(y, slug, status) ==
    LET definition == YamlLoad(y)
        metadata == Get(definition, "metadata", JObj(EmptyMap))
        name == Get(metadata, "name", JNull)
    IN  IF definition.t # "obj"
        THEN CmdRaise("TypeError", <<"Invalid dashboard YAML: expected a dictionary">>)
        ELSE IF slug.given THEN put_dashboard(slug.s, definition, status)
        ELSE IF metadata.t # "obj"
        THEN CmdRaise("AttributeError", <<"object has no attribute 'get'">>)
        ELSE IF Falsy(name)
        THEN CmdRaise("ValueError",
                      <<"Dashboard must have metadata.name or provide explicit slug">>)
        ELSE IF name.t # "str"
        THEN CmdRaise("AttributeError", <<"object has no attribute 'lower'">>)
        ELSE put_dashboard(SlugOfName(name.s), definition, status)

\* the files handed to push: the root a list or empty, the metadata missing,
\* empty, null or without a name, the name empty, null, a number or a text
LegacyMetadata ==
    {Missing, YMap(EmptyMap), YScalar(<< >>, TRUE), YScalar(<<"draft">>, TRUE),
     YMap([k \in {"project"} |-> YScalar(<<"proj">>, TRUE)]),
     YMap([k \in {"name"} |-> YScalar(<< >>, FALSE)]),
     YMap([k \in {"name"} |-> YScalar(<<"~">>, TRUE)]),
     YMap([k \in {"name"} |-> YScalar(<<"1">>, TRUE)])}
        \cup {YMap([k \in {"name"} |-> YScalar(n, FALSE)]) : n \in Names \ {<< >>}}

LegacyInputs ==
    {YPresent(r) : r \in [kind : {YScalar(<<"Dashboard">>, TRUE)},
                          metadata : LegacyMetadata,
                          spec : {YMap(EmptyMap)}]}
        \cup {YSeq(<<YScalar(<<"1">>, TRUE), YScalar(<<"2">>, TRUE), YScalar(<<"3">>, TRUE)>>),
              YScalar(<< >>, TRUE)}

PushSlugs == {NotGiven, Given(<< >>), Given(<<"a">>), Given(<<"A", "_">>)}
PushStatuses == {200, 401, 403, 404, 500}

Push(y, slug, status) ==
    /\ cmd.op = "none"
    /\ cmd' = [op |-> "push", input |-> y, slug |-> slug, status |-> status,
               out |-> push(y, slug, status)]
    /\ UNCHANGED <<session, opened, closed, scopes, left, last, doc, peer>>

\* the template init writes; the example panel and the grid layout are cut
\* down to their kinds
Template(name, env) ==
    JObj([kind |-> JStr(<<"Dashboard">>),
          metadata |-> JObj([name |-> JStr(Replace(Lower(name), " ", "-")),
                             project |-> JStr(IF env.given THEN env.s ELSE <<"your-project">>)]),
          spec |-> JObj([display |-> JObj([k \in {"name"} |-> JStr(name)]),
                         panels |-> JObj([k \in {"ExamplePanel"} |->
                                             JObj([x \in {"kind"} |-> JStr(<<"Panel">>)])]),
                         layouts |-> JArr(<<JObj([x \in {"kind"} |-> JStr(<<"Grid">>)])>>),
                         duration |-> JStr(<<"1h">>),
                         refreshInterval |-> JStr(<<"0s">>)])])

InitOutputs == {NotGiven, Given(<<"out.yaml">>)}
Environments == {NotGiven, Given(project)}

\* init NAME [--output PATH], with LOGFIRE_PROJECT set or not
InitCmd(name, output, env) ==
    /\ cmd.op = "none"
    /\ cmd' = [op |-> "init", name |-> name, output |-> output,
               path |-> IF output.given THEN output.s ELSE SlugOfName(name) \o <<".yaml">>,
               written |-> YamlDump(Template(name, env)),
               requests |-> 0, exit |-> 0]
    /\ UNCHANGED <<session, opened, closed, scopes, left, last, doc, peer>>

\* validate_yaml_structure: how it ends
validate_yaml_structure(y) ==
    LET data == YamlLoad(y)
    IN  IF data.t # "obj" THEN "TypeError"
        ELSE IF Get(data, "kind", JNull) # JStr(<<"Dashboard">>) THEN "ValueError"
        ELSE IF "metadata" \notin DOMAIN data.f THEN "ValueError"
        ELSE IF "spec" \notin DOMAIN data.f THEN "ValueError"
        ELSE IF data.f["metadata"].t # "obj" \/ "name" \notin DOMAIN data.f["metadata"].f
        THEN "ValueError"
        ELSE "ok"

\* the loop of lint over the files from the i-th on; rcs are percli's return
\* codes.  An exception other than ValueError leaves the loop and the command.
RECURSIVE LintLoop(_, _, _, _, _, _)
LintLoop(files, i, percli, rcs, reports, has_errors) ==
    IF i > Len(files)
    THEN [reports |-> reports, raised |-> FALSE, exc |-> "none",
          exit |-> IF has_errors THEN 1 ELSE 0]
    ELSE IF percli
    THEN LintLoop(files, i + 1, percli, rcs,
                  Append(reports, IF rcs[i] # 0 THEN "Validation failed" ELSE "Valid"),
                  has_errors \/ rcs[i] # 0)
    ELSE IF validate_yaml_structure(files[i]) = "ok"
    THEN LintLoop(files, i + 1, percli, rcs, Append(reports, "Valid"), has_errors)
    ELSE IF validate_yaml_structure(files[i]) = "ValueError"
    THEN LintLoop(files, i + 1, percli, rcs, Append(reports, "Validation failed"), TRUE)
    ELSE [reports |-> reports, raised |-> TRUE, exc |-> validate_yaml_structure(files[i]),
          exit |-> 1]

lint(files, percli, rcs) ==
    IF files = << >>
    THEN [reports |-> <<"No files specified.">>, raised |-> FALSE, exc |-> "none", exit |-> 0]
    ELSE LintLoop(files, 1, percli, rcs, << >>, FALSE)

\* the files handed to lint: a good one, and one for each way of being bad
GoodFile ==
    YMap([kind |-> YScalar(<<"Dashboard">>, TRUE),
          metadata |-> YMap([k \in {"name"} |-> YScalar(<<"t1">>, TRUE)]),
          spec |-> YMap(EmptyMap)])
LintFiles ==
    {GoodFile,
     YSeq(<<YScalar(<<"1">>, TRUE)>>),
     [GoodFile EXCEPT !.f["kind"] = YScalar(<<"Panel">>, TRUE)],
     YMap([k \in {"kind", "spec"} |-> GoodFile.f[k]]),
     YMap([k \in {"kind", "metadata"} |-> GoodFile.f[k]]),
     [GoodFile EXCEPT !.f["metadata"] = YScalar(<<"draft">>, TRUE)],
     [GoodFile EXCEPT !.f["metadata"] = YMap([k \in {"project"} |-> YScalar(<<"proj">>, TRUE)])]}
FileLists == UNION {[1..n -> LintFiles] : n \in 0..MaxFiles}

Lint(files, percli, rcs) ==
    /\ cmd.op = "none"
    /\ ~percli => \A i \in DOMAIN rcs : rcs[i] = 0
    /\ cmd' = [op |-> "lint", files |-> files, percli |-> percli, rcs |-> rcs,
               out |-> lint(files, percli, rcs)]
    /\ UNCHANGED <<session, opened, closed, scopes, left, last, doc, peer>>

\* the caller is done with the command's outcome
Done ==
    /\ cmd.op # "none"
    /\ cmd' = NoCmd
    /\ UNCHANGED <<session, opened, closed, scopes, left, last, doc, peer>>

CliNext ==
    \/ cmd.op = "none" /\ \E y \in LegacyInputs, slug \in PushSlugs, st \in PushStatuses :
                              Push(y, slug, st)
    \/ cmd.op = "none" /\ \E name \in Names, output \in InitOutputs, env \in Environments :
                              InitCmd(name, output, env)
    \/ cmd.op = "none" /\ \E files \in FileLists, percli \in BOOLEAN :
                              \E rcs \in [1..Len(files) -> {0, 1}] : Lint(files, percli, rcs)
    \/ Done

CliSpec == Init /\ [][CliNext]_vars


(***************************************************************************)
(* Properties.                                                             *)
(***************************************************************************)
Operations ==
    {"list_dashboards", "get_dashboard", "create_dashboard", "update_dashboard",
     "delete_dashboard"}
DecodingOperations == Operations \ {"delete_dashboard"}
SlugOperations == {"get_dashboard", "update_dashboard", "delete_dashboard"}
Success == 200..299

\* the shape each operation expects of a 2xx body
ExpectedShape(op) ==
    CASE op = "list_dashboards" -> "ListDashboards"
      [] op = "get_dashboard" -> "GetDashboardResponse"
      [] op \in {"create_dashboard", "update_dashboard"} -> "DashboardResponse"

WellFormed(op, b) ==
    Bodies[b].jsonType /\ Bodies[b].isJson /\ ModelValidate(ExpectedShape(op), Bodies[b].value).ok

\* C1: an operation invoked while no scope is active (before the first
\* __aenter__ or after __aexit__) raises the usage fault RuntimeError, which is
\* not a LogfireClientError, and issues no HTTP request.
C1_NoScopeUsageFault ==
    (~Idle /\ last.depth = 0) =>
        /\ last.raised
        /\ last.exc = "RuntimeError"
        /\ last.exc \notin ClientErrors
        /\ last.requests = 0
        /\ ~last.req.sent

\* an operation invoked after the only scope entered so far was left again
C1_Witness ==
    /\ last.op = "delete_dashboard"
    /\ last.depth = 0
    /\ left.valid
    /\ last.exc = "RuntimeError"

\* C2: for every scope entered, the session its __aenter__ opened is closed
\* once the scope is left, on the normal and on the exceptional path, and the
\* client then holds no open session.
C2_ScopeExitClosesItsSession ==
    left.valid =>
        /\ left.opened \in closed
        /\ (session = 0 \/ session \in closed)

\* C3: for every operation, a response with status 401 or 403 raises
\* LogfireAuthenticationError and no other kind, and the body is not decoded.
C3_AuthenticationFailure ==
    (~Idle /\ last.resp.got /\ last.resp.status \in {401, 403}) =>
        /\ last.raised
        /\ last.exc = "LogfireAuthenticationError"
        /\ last.decoded = 0

\* C4: a response with status 404 makes get_dashboard raise
\* LogfireNotFoundError, and likewise delete_dashboard.
C4_NotFound ==
    (/\ ~Idle
     /\ last.op \in {"get_dashboard", "delete_dashboard"}
     /\ last.resp.got
     /\ last.resp.status = 404) =>
        last.raised /\ last.exc = "LogfireNotFoundError"

\* C5: for list, get, create and update, every response whose status is
\* neither 2xx nor 401, 403 or 404 raises the generic LogfireClientError with
\* the status code and the raw body text in its message; the body is not
\* decoded as a success result.
C5_OtherStatusIsGenericFailure ==
    (/\ ~Idle
     /\ last.op \in DecodingOperations
     /\ last.resp.got
     /\ last.resp.status \notin Success
     /\ last.resp.status \notin {401, 403, 404}) =>
        /\ last.raised
        /\ last.exc = "LogfireClientError"
        /\ last.msg.status = last.resp.status
        /\ last.msg.text = last.resp.text
        /\ last.decoded = 0

\* C6: a 2xx response whose body is not valid JSON, or does not match the
\* shape the operation expects, makes the operation fail with
\* LogfireClientError and with no other exception type.
C6_DecodingFailureIsClientError ==
    (/\ ~Idle
     /\ last.op \in DecodingOperations
     /\ last.resp.got
     /\ last.resp.status \in Success
     /\ ~WellFormed(last.op, last.resp.body)) =>
        last.raised /\ last.exc = "LogfireClientError"

\* C7: every non-success outcome of a request, a timeout or a transport
\* failure included, reaches the caller as LogfireClientError or a subclass; a
\* timeout is the generic LogfireClientError; no operation returns normally
\* after a failed request.
C7_EveryFailureIsClientError ==
    (~Idle /\ last.req.sent) =>
        /\ (last.transport # "response" => last.raised)
        /\ (last.transport = "timeout" => last.exc = "LogfireClientError")
        /\ (last.raised => last.exc \in ClientErrors)

\* C8: each invocation inside an active scope issues exactly one HTTP request
\* and decodes at most one response, whatever the outcome.
C8_OneRequestPerInvocation ==
    (~Idle /\ last.depth > 0) =>
        /\ last.requests = 1
        /\ last.decoded <= 1

\* C9: delete_dashboard returns normally if and only if the response status
\* is 204; any other status, other 2xx statuses included, raises a
\* LogfireClientError that carries the status.
C9_DeleteSucceedsOnlyOn204 ==
    (~Idle /\ last.op = "delete_dashboard") =>
        /\ (~last.raised <=> (last.resp.got /\ last.resp.status = 204))
        /\ (last.resp.got /\ last.resp.status # 204 =>
                /\ last.raised
                /\ last.exc \in ClientErrors
                /\ last.msg.status = last.resp.status)

C9_Witness ==
    /\ last.op = "delete_dashboard"
    /\ last.resp.got
    /\ last.resp.status = 200
    /\ last.raised
    /\ last.exc = "LogfireClientError"

CollectionPath ==
    <<Slash, "ui-api", Slash, "organizations", Slash>> \o organization
        \o <<Slash, "projects", Slash>> \o project \o <<Slash, "dashboards", Slash>>

\* the path is .../dashboards/<s>/, s is the one segment between the collection
\* path and the final slash, and the path is not the collection path
TargetsResource(url, s) ==
    /\ url = CollectionPath \o s \o <<Slash>>
    /\ url[Len(url)] = Slash
    /\ Split(url) = Split(CollectionPath \o s) \o << << >> >>
    /\ Split(CollectionPath \o s) = Split(SubSeq(CollectionPath, 1, Len(CollectionPath) - 1)) \o <<s>>
    /\ url # CollectionPath

PathsAsClaimed(slugs) ==
    (~Idle /\ last.req.sent) =>
        /\ (last.op \in SlugOperations /\ last.slug \in slugs =>
                TargetsResource(last.req.url, last.slug))
        /\ (last.op \in Operations \ SlugOperations => last.req.url = CollectionPath)

\* C10 as stated: for every slug string s, get, update and delete send their
\* request to .../dashboards/<s>/, which ends with a slash, has s as its own
\* path segment and differs from the collection path that list and create use.
C10_EverySlugTargetsResource == PathsAsClaimed(Slugs)

\* C10 as amended: the same for every slug that is not empty and holds no slash.
C10_PlainSlugTargetsResource ==
    PathsAsClaimed({s \in Slugs : s # << >> /\ \A i \in 1..Len(s) : s[i] # Slash})

C10_Witness ==
    /\ last.op = "delete_dashboard"
    /\ last.req.sent
    /\ last.slug = <<"a">>
    /\ last.req.url = CollectionPath \o <<"a", Slash>>

PlainSlugs == {s \in Slugs : s # << >> /\ \A i \in 1..Len(s) : s[i] # Slash}

\* the wire name the specification gives each field of the document
WireAlias(n) ==
    CASE n = "created_at" -> "createdAt"
      [] n = "updated_at" -> "updatedAt"
      [] n = "refresh_interval" -> "refreshInterval"
      [] OTHER -> n

\* the fields of a model instance whose value is not None
SetFields(inst) == {n \in DOMAIN inst.f : inst.f[n].t # "null"}

\* w holds the non-None fields of the instance and nothing else, each under its
\* wire name and, unless it is a nested model, with the value it has
EmitsFields(inst, w, nested) ==
    /\ w.t = "obj"
    /\ DOMAIN w.f = {WireAlias(n) : n \in SetFields(inst)}
    /\ \A n \in SetFields(inst) \ nested : w.f[WireAlias(n)] = inst.f[n]

\* w is the Dashboard D serialized with wire aliases and None fields omitted
WireForm(D, w) ==
    /\ EmitsFields(D, w, {"metadata", "spec"})
    /\ EmitsFields(D.f["metadata"], w.f["metadata"], {})
    /\ EmitsFields(D.f["spec"], w.f["spec"], {"display"})
    /\ EmitsFields(D.f["spec"].f["display"], w.f["spec"].f["display"], {})

BodyAsClaimed ==
    /\ last.req.data.t = "obj"
    /\ DOMAIN last.req.data.f = {"definition", "slug", "name"}
    /\ last.req.data.f["slug"] = JStr(last.slug)
    /\ last.req.data.f["name"] = Docs[last.dashboard].f["metadata"].f["name"]
    /\ WireForm(Docs[last.dashboard], last.req.data.f["definition"])

DeclaredFields(shape) ==
    CASE shape = "ListDashboardItem" -> ItemFields
      [] shape = "GetDashboardResponse" -> {"dashboard"}
      [] shape = "DashboardResponse" -> ItemFields \cup {"definition"}

HasUndeclaredField(j, shape) == j.t = "obj" /\ ~(DOMAIN j.f \subseteq DeclaredFields(shape))

\* the body the operation is answered with has an undeclared field in its
\* envelope or, for list, in one of its items
ExtraFieldInResponse(op, j) ==
    IF op = "list_dashboards"
    THEN j.t = "arr" /\ \E i \in 1..Len(j.q) : HasUndeclaredField(j.q[i], "ListDashboardItem")
    ELSE HasUndeclaredField(j, ExpectedShape(op))

\* C14: the server-envelope shapes reject any input that carries a field they
\* do not declare: list, get, create and update fail to decode a 2xx response
\* whose envelope or list item has an extra field, and return nothing.
C14_ExtraFieldRejected ==
    (/\ ~Idle
     /\ last.op \in DecodingOperations
     /\ last.resp.got
     /\ last.resp.status \in Success
     /\ Bodies[last.resp.body].jsonType
     /\ Bodies[last.resp.body].isJson
     /\ ExtraFieldInResponse(last.op, Bodies[last.resp.body].value)) =>
        /\ last.raised
        /\ last.decoded = 0
        /\ last.value = JNull

\* a list whose first item is well-formed and whose second has an extra field
C14_Witness ==
    /\ last.op = "list_dashboards"
    /\ last.resp.got
    /\ last.resp.status = 200
    /\ Bodies[last.resp.body].value.t = "arr"
    /\ Len(Bodies[last.resp.body].value.q) = 2
    /\ ListDashboardItem(Bodies[last.resp.body].value.q[1]).ok
    /\ ListDashboardItem(Without(Bodies[last.resp.body].value.q[2], {"extra"})).ok
    /\ "extra" \in DOMAIN Bodies[last.resp.body].value.q[2].f
    /\ last.raised
    /\ last.exc = "ValidationError"

Opaque == {"datasources", "panels", "layouts", "variables"}

\* the document a response to get, create or update carries
DocumentIn(op, j) == IF op = "get_dashboard" THEN j.f["dashboard"] ELSE j.f["definition"]

SwapKeys(o, a, b) ==
    LET other(k) == IF k = a THEN b ELSE IF k = b THEN a ELSE k
    IN  JObj([k \in {other(x) : x \in DOMAIN o.f} |-> o.f[other(k)]])

\* the input document with every aliased field moved to its other name
OtherNames(j) ==
    LET metadata == SwapKeys(SwapKeys(j.f["metadata"], "createdAt", "created_at"),
                             "updatedAt", "updated_at")
        spec == SwapKeys(j.f["spec"], "refreshInterval", "refresh_interval")
    IN  With(With(j, "metadata", metadata), "spec", spec)

IsEmpty(v) ==
    \/ v.t = "str" /\ v.s = << >>
    \/ v.t = "obj" /\ DOMAIN v.f = {}
    \/ v.t = "arr" /\ v.q = << >>

\* C16: the document model accepts each aliased field (created_at/createdAt,
\* updated_at/updatedAt, refresh_interval/refreshInterval) under its wire name
\* or its field name with the same result; the serialization names each by its
\* wire name only, leaves out every field that is None and keeps the fields
\* that are merely empty (empty mapping, list, string).
C16_AliasesAndOmission ==
    /\ (doc.step = "validated" /\ doc.model = "Dashboard") =>
            Dashboard(OtherNames(doc.input)) = [ok |-> doc.ok, v |-> doc.inst]
    /\ doc.step = "dumped" =>
            /\ WireForm(doc.inst, doc.wire)
            /\ DOMAIN doc.wire.f["metadata"].f \cap {"created_at", "updated_at"} = {}
            /\ "refresh_interval" \notin DOMAIN doc.wire.f["spec"].f
            /\ \A n \in DOMAIN doc.inst.f["spec"].f :
                    IsEmpty(doc.inst.f["spec"].f[n]) =>
                        /\ WireAlias(n) \in DOMAIN doc.wire.f["spec"].f
                        /\ doc.wire.f["spec"].f[WireAlias(n)] = doc.inst.f["spec"].f[n]
            /\ IsEmpty(doc.inst.f["spec"].f["display"].f["description"]) =>
                    doc.wire.f["spec"].f["display"].f["description"] = JStr(<< >>)

\* created_at and refresh_interval came under their field names and leave under
\* their wire names; updated_at is None and left out; the empty description,
\* duration, datasources, panels and layouts are kept
C16_Witness ==
    /\ doc.step = "dumped"
    /\ "created_at" \in DOMAIN doc.input.f["metadata"].f
    /\ "refresh_interval" \in DOMAIN doc.input.f["spec"].f
    /\ doc.inst.f["metadata"].f["updated_at"] = JNull
    /\ doc.inst.f["spec"].f["display"].f["description"] = JStr(<< >>)
    /\ doc.wire.f["metadata"].f["createdAt"] = JStr(<<"2024-01-01T00:00:00Z">>)
    /\ doc.wire.f["spec"].f["refreshInterval"] = JStr(<<"30s">>)
    /\ "updatedAt" \notin DOMAIN doc.wire.f["metadata"].f
    /\ doc.wire.f["spec"].f["display"].f["description"] = JStr(<< >>)
    /\ doc.wire.f["spec"].f["duration"] = JStr(<< >>)
    /\ doc.wire.f["spec"].f["datasources"] = JObj(EmptyMap)
    /\ doc.wire.f["spec"].f["panels"] = JObj(EmptyMap)
    /\ doc.wire.f["spec"].f["layouts"] = JArr(<< >>)

\* a JSON array whose elements are well-formed list items
WellFormedItems(a) == a.t = "arr" /\ \A i \in 1..Len(a.q) : ListDashboardItem(a.q[i]).ok

\* the body is an object that wraps the array a under one key
Wraps(j, a) == j.t = "obj" /\ \E k \in DOMAIN j.f : DOMAIN j.f = {k} /\ j.f[k] = a

\* the result is the typed list of the items of a: as many, in the same order,
\* each with the field values of its element
DecodesTo(a) ==
    /\ ~last.raised
    /\ last.value.t = "arr"
    /\ Len(last.value.q) = Len(a.q)
    /\ \A i \in 1..Len(a.q) : \A k \in DOMAIN a.q[i].f : last.value.q[i].f[k] = a.q[i].f[k]

ListAnswered ==
    /\ ~Idle
    /\ last.op = "list_dashboards"
    /\ last.resp.got
    /\ last.resp.status \in Success
    /\ Bodies[last.resp.body].jsonType
    /\ Bodies[last.resp.body].isJson

\* C17: if the server answers list_dashboards with a 2xx bare JSON array of n
\* well-formed items, the result holds exactly n list items, in the array's
\* order, with the field values of the array's elements; a 2xx response that
\* wraps the same array in an object decodes to the same typed result.
C17_ListDecodes ==
    ListAnswered =>
        /\ WellFormedItems(Bodies[last.resp.body].value) => DecodesTo(Bodies[last.resp.body].value)
        /\ \A b \in 1..Len(Bodies) :
               (WellFormedItems(Bodies[b].value) /\ Wraps(Bodies[last.resp.body].value, Bodies[b].value))
                   => DecodesTo(Bodies[b].value)

\* The part of C17 about the bare array.
BareArrayDecodes ==
    (ListAnswered /\ WellFormedItems(Bodies[last.resp.body].value)) =>
        DecodesTo(Bodies[last.resp.body].value)

RequiredItemFields ==
    {"id", "project_id", "created_at", "created_by_name", "dashboard_name", "dashboard_slug"}
OptionalItemFields == {"updated_at", "updated_by_name"}

\* the value the item gives field k is of the type the field declares
WellTyped(k, v) ==
    CASE k \in {"id", "project_id"} -> IsUuid(v)
      [] k = "created_at" -> IsDatetime(v)
      [] k = "updated_at" -> IsOptDatetime(v)
      [] k = "updated_by_name" -> IsOptStr(v)
      [] OTHER -> IsStr(v)

RequiredFieldBad(j) ==
    \E k \in RequiredItemFields : k \notin DOMAIN j.f \/ ~WellTyped(k, j.f[k])

ItemValidated == doc.step = "validated" /\ doc.model = "ListDashboardItem"

\* C18: a list item decodes when its optional fields updated_at and
\* updated_by_name are absent from the server JSON, which then read as None; it
\* fails to decode only when a required field (id, project_id, created_at,
\* created_by_name, dashboard_name, dashboard_slug) is missing or ill-typed.
C18_ItemOptionalFields ==
    ItemValidated =>
        /\ (~RequiredFieldBad(doc.input) /\ DOMAIN doc.input.f \cap OptionalItemFields = {}) =>
                /\ doc.ok
                /\ doc.inst.f["updated_at"] = JNull
                /\ doc.inst.f["updated_by_name"] = JNull
        /\ ~doc.ok => RequiredFieldBad(doc.input)

\* What holds instead: updated_at may be absent, updated_by_name may be null but
\* not absent.
ItemNeedsUpdatedByName ==
    ItemValidated =>
        (doc.ok <=> (~RequiredFieldBad(doc.input) /\ "updated_by_name" \in DOMAIN doc.input.f))

\* C19: every Dashboard document the document model accepts has kind equal to
\* the literal 'Dashboard'; an input with any other kind value is rejected.
C19_KindIsDashboard ==
    (doc.step = "validated" /\ doc.model = "Dashboard") =>
        /\ doc.ok => doc.inst.f["kind"] = JStr(<<"Dashboard">>)
        /\ ("kind" \in DOMAIN doc.input.f /\ doc.input.f["kind"] # JStr(<<"Dashboard">>)) => ~doc.ok

\* What holds instead: kind is any string, 'Dashboard' when the input has none.
KindIsAnyString ==
    (doc.step = "validated" /\ doc.model = "Dashboard" /\ doc.ok) =>
        /\ doc.inst.f["kind"].t = "str"
        /\ "kind" \in DOMAIN doc.input.f => doc.inst.f["kind"] = doc.input.f["kind"]
        /\ "kind" \notin DOMAIN doc.input.f => doc.inst.f["kind"] = JStr(<<"Dashboard">>)

\* C20: LogfireNotFoundError is raised only by the operations that target an
\* existing resource by slug (get, update, delete); list_dashboards and
\* create_dashboard never raise it, whatever status the server returns.
C20_NotFoundOnlyForSlugOperations ==
    (~Idle /\ last.raised /\ last.exc = "LogfireNotFoundError") => last.op \in SlugOperations

\* What holds instead: the not-found kind is raised exactly by list, get, create
\* and update on status 404.
NotFoundIsHandled404 ==
    ~Idle =>
        ((last.raised /\ last.exc = "LogfireNotFoundError")
            <=> (last.op \in DecodingOperations /\ last.resp.got /\ last.resp.status = 404))

\* C21: every request the client issues inside a scope carries
\* 'Authorization: Bearer <token>' with the client's token, 'Content-Type:
\* application/json' and the same fixed User-Agent string, for every operation
\* and every request of the scope.
C21_HeadersOnEveryRequest ==
    (~Idle /\ last.req.sent) =>
        /\ DOMAIN last.req.headers = {"Authorization", "ContentType", "UserAgent"}
        /\ last.req.headers["Authorization"] = <<"Bearer ", "test-token">>
        /\ last.req.headers["ContentType"] = <<"application/json">>
        /\ last.req.headers["UserAgent"] = Headers["UserAgent"]
        /\ Len(last.req.headers["UserAgent"]) = 1

\* a bodiless request, through the second scope's session, carries the headers
C21_Witness ==
    /\ last.op = "delete_dashboard"
    /\ last.req.sent
    /\ last.held = 2
    /\ last.req.headers["Authorization"] = <<"Bearer ", "test-token">>
    /\ "UserAgent" \in DOMAIN last.req.headers

\* C22: create_dashboard(slug, D) and update_dashboard(slug, D) raise
\* ValueError when slug does not match D.metadata.name, as their docstrings
\* state, and in that case send no request.
C22_SlugMismatchIsValueError ==
    (/\ ~Idle
     /\ last.op \in {"create_dashboard", "update_dashboard"}
     /\ last.depth > 0
     /\ JStr(last.slug) # Docs[last.dashboard].f["metadata"].f["name"]) =>
        /\ last.raised
        /\ last.exc = "ValueError"
        /\ last.requests = 0

\* What holds instead: inside a scope whose session the client holds, the body
\* is sent with the slug as given, whether or not it is the document's name.
SlugAndNameSentAsGiven ==
    (~Idle /\ last.op \in {"create_dashboard", "update_dashboard"} /\ last.held # 0) =>
        /\ last.requests = 1
        /\ last.exc # "ValueError"
        /\ last.req.data.f["slug"] = JStr(last.slug)
        /\ last.req.data.f["name"] = Docs[last.dashboard].f["metadata"].f["name"]

\* C29: the session reference is non-null exactly while a scope is active:
\* null after construction, non-null after __aenter__, null again after
\* __aexit__; an __aexit__ with no scope active changes nothing.
C29_SessionHeldExactlyInScope ==
    /\ (session # 0) <=> (scopes # << >>)
    /\ (session # 0) => session \notin closed

\* The half of C29 that holds: with no scope active the reference is null, so
\* an __aexit__ without a scope finds nothing to close.
SessionNullWithoutScope == scopes = << >> => session = 0

\* C30: every session opened by a scope entry is closed by the time all scopes
\* on the instance have exited, also when the instance is entered again before
\* the first scope has exited; the client never loses its reference to a
\* session that is still open.
C30_NoSessionLeaked ==
    /\ scopes = << >> => \A s \in 1..opened : s \in closed
    /\ \A s \in 1..opened : s \notin closed => session = s

\* C23: for every valid Dashboard D, writing D to YAML and reading the text
\* back as a Dashboard gives a document equal to D.
C23_YamlRoundTrip ==
    doc.step = "read" => (doc.back.ok /\ doc.back.v = doc.inst)

\* The same, for the documents whose payloads hold JSON values only.
YamlRoundTripOfJsonValues ==
    (doc.step = "read" /\ ~HasDate(doc.inst)) => (doc.back.ok /\ doc.back.v = doc.inst)

\* a document read from a file with a quoted timestamp and an empty
\* description comes back equal
YamlRoundTripReached ==
    /\ doc.step = "read"
    /\ doc.input.t = "ymap"
    /\ doc.inst.f["metadata"].f["created_at"] = JStr(<<"2024-01-01T00:00:00Z">>)
    /\ doc.inst.f["spec"].f["display"].f["description"] = JStr(<< >>)
    /\ doc.wire.f["metadata"].f["createdAt"] = YScalar(<<"2024-01-01T00:00:00Z">>, FALSE)
    /\ doc.back.v = doc.inst

\* the URL of the dashboard with the given slug, as the legacy client addresses it
LegacyUrlOf(slug) == LegacyBase \o <<"/">> \o slug \o <<"/">>

\* the mapping has a non-empty metadata.name
HasName(v) ==
    /\ "metadata" \in DOMAIN v.f
    /\ v.f["metadata"].t = "obj"
    /\ "name" \in DOMAIN v.f["metadata"].f
    /\ v.f["metadata"].f["name"].t = "str"
    /\ v.f["metadata"].f["name"].s # << >>

\* C26: the legacy push without a slug raises TypeError when the root of the
\* YAML is not a mapping and ValueError for every mapping without a non-empty
\* metadata.name, in both cases before any request; with a usable name the
\* PUT goes to the name lowercased with spaces and underscores turned into
\* hyphens, and with an explicit slug it goes to exactly that slug.
C26_LegacyPush ==
    cmd.op = "push" =>
        LET v == YamlLoad(cmd.input)
        IN  /\ (~cmd.slug.given /\ v.t # "obj") =>
                   cmd.out.raised /\ cmd.out.exc = "TypeError" /\ cmd.out.requests = 0
            /\ (~cmd.slug.given /\ v.t = "obj" /\ ~HasName(v)) =>
                   cmd.out.raised /\ cmd.out.exc = "ValueError" /\ cmd.out.requests = 0
            /\ (~cmd.slug.given /\ v.t = "obj" /\ HasName(v)) =>
                   /\ cmd.out.requests = 1
                   /\ cmd.out.url = LegacyUrlOf(SlugOfName(v.f["metadata"].f["name"].s))
            /\ (cmd.slug.given /\ v.t = "obj") =>
                   cmd.out.requests = 1 /\ cmd.out.url = LegacyUrlOf(cmd.slug.s)

\* The same, where the metadata is missing or a mapping, its name is missing,
\* null or a text, and the explicit slug is not empty.
LegacyPushOnMappings ==
    (/\ cmd.op = "push"
     /\ cmd.slug.given => cmd.slug.s # << >>
     /\ LET v == YamlLoad(cmd.input)
        IN  v.t = "obj" =>
               /\ Get(v, "metadata", JObj(EmptyMap)).t = "obj"
               /\ Get(Get(v, "metadata", JObj(EmptyMap)), "name", JNull).t \in {"null", "str"})
        => C26_LegacyPush

\* a push that derived the slug a-- from the name "A _"
LegacyPushDerivedSlug ==
    /\ cmd.op = "push"
    /\ ~cmd.slug.given
    /\ cmd.out.requests = 1
    /\ cmd.out.url = LegacyUrlOf(<<"a", "-">>)
    /\ cmd.input.t = "ymap"
    /\ YamlLoad(cmd.input).f["metadata"].f["name"] = JStr(<<"A", "_">>)

\* C27: init without --output writes the template to '<slug>.yaml', slug the
\* display name lowercased with spaces and underscores turned into hyphens;
\* the template has kind Dashboard, metadata.name equal to that slug and
\* spec.display.name equal to the display name; no network call is made.
C27_InitScaffold ==
    (cmd.op = "init" /\ ~cmd.output.given) =>
        LET slug == SlugOfName(cmd.name)
            content == YamlLoad(cmd.written)
        IN  /\ cmd.path = slug \o <<".yaml">>
            /\ content.f["kind"] = JStr(<<"Dashboard">>)
            /\ content.f["metadata"].f["name"] = JStr(slug)
            /\ content.f["spec"].f["display"].f["name"] = JStr(cmd.name)
            /\ cmd.requests = 0

\* The same for the display names without an underscore.
InitScaffoldWithoutUnderscore ==
    (cmd.op = "init" /\ \A i \in 1..Len(cmd.name) : cmd.name[i] # "_") => C27_InitScaffold

\* the template written for the display name "A " to the file a-.yaml
InitScaffoldWritten ==
    /\ cmd.op = "init"
    /\ cmd.name = <<"A", " ">>
    /\ cmd.path = <<"a", "-", ".yaml">>
    /\ YamlLoad(cmd.written).f["metadata"].f["name"] = JStr(<<"a", "-">>)

\* the file fails structural validation, in one of the ways the lint command
\* names
StructurallyBad(y) ==
    LET data == YamlLoad(y)
    IN  \/ data.t # "obj"
        \/ Get(data, "kind", JNull) # JStr(<<"Dashboard">>)
        \/ "metadata" \notin DOMAIN data.f
        \/ "spec" \notin DOMAIN data.f
        \/ data.f["metadata"].t # "obj"
        \/ "name" \notin DOMAIN data.f["metadata"].f

\* C28: without percli, lint validates every file it is given, in order: each
\* file that fails structural validation is reported as 'Validation failed'
\* and the run goes on; after the last file the exit code is 1 if a file
\* failed and 0 otherwise.
C28_LintReportsEveryFile ==
    (cmd.op = "lint" /\ ~cmd.percli /\ cmd.files # << >>) =>
        /\ ~cmd.out.raised
        /\ Len(cmd.out.reports) = Len(cmd.files)
        /\ \A i \in 1..Len(cmd.files) :
               i <= Len(cmd.out.reports) =>
                  cmd.out.reports[i] = IF StructurallyBad(cmd.files[i]) THEN "Validation failed"
                                       ELSE "Valid"
        /\ cmd.out.exit = IF \E i \in 1..Len(cmd.files) : StructurallyBad(cmd.files[i])
                          THEN 1 ELSE 0

\* The same for the runs in which the root of every file is a mapping.
LintOfMappings ==
    (cmd.op = "lint" /\ \A i \in 1..Len(cmd.files) : cmd.files[i].t = "ymap")
        => C28_LintReportsEveryFile

\* a run that reported a bad file and went on to a good one
LintWentOn ==
    /\ cmd.op = "lint"
    /\ ~cmd.percli
    /\ cmd.out.reports = <<"Validation failed", "Valid">>
    /\ cmd.out.exit = 1

\* what the response alone makes of an operation: no field of the client and
\* no earlier invocation enters
OutcomeOf(op, transport, status, b) ==
    IF transport = "timeout" THEN Raise("TimeoutError", "timeout", 0, << >>)
    ELSE IF transport = "connection" THEN Raise("ClientConnectionError", "connection", 0, << >>)
    ELSE IF op = "delete_dashboard" THEN HandleDelete(status)
    ELSE HandleResponse(status, Bodies[b], ExpectedShape(op))

ResultField(op) == IF op = "get_dashboard" THEN "dashboard" ELSE "definition"

OutcomeOwn(l) ==
    (l.op # "none" /\ l.held # 0) =>
        LET out == OutcomeOf(l.op, l.transport, l.resp.status, l.resp.body)
        IN  /\ l.raised = out.raised
            /\ l.exc = out.exc
            /\ l.msg = out.msg
            /\ ~out.raised =>
                   l.value = IF l.op \in {"list_dashboards", "delete_dashboard"}
                             THEN out.value
                             ELSE out.value.f[ResultField(l.op)]

OutcomeIsOwn == OutcomeOwn(last)

\* C24: every operation, whether it returns or raises, leaves the session
\* reference and the rest of the client as it was and writes nothing outside
\* the request; its outcome depends only on its arguments and the server's
\* response, not on the operations that ran before it in the scope.
C24_OperationsLeaveClientAlone ==
    [][/\ (Idle /\ ~Idle') => UNCHANGED <<session, opened, closed, scopes, left, doc>>
       /\ OutcomeIsOwn']_vars

\* an operation has failed inside a scope and the session is still the
\* client's, open
C24_Witness ==
    /\ last.op = "get_dashboard"
    /\ last.raised
    /\ last.exc = "LogfireNotFoundError"
    /\ last.held # 0
    /\ session = last.held
    /\ session \notin closed
    /\ closed # {}

\* C25: two clients, each inside its own scope, run operations in any
\* interleaving: the outcome of each operation is determined by its own
\* request and response, and a step of one client (entering, exiting, an
\* operation that fails) never closes or replaces the other client's session.
C25_ClientsIndependent ==
    [][/\ OutcomeOwn(last')
       /\ OutcomeOwn(peer'.last)
       /\ (session' # 0 /\ peer'.session # 0) => session' # peer'.session
       /\ peer'.id = peer.id =>
              /\ peer'.session = peer.session
              /\ (peer.session # 0 /\ peer.session \notin closed) => peer.session \notin closed'
       /\ peer'.id # peer.id =>
              /\ peer'.session = session /\ session' = peer.session
              /\ closed' = closed]_vars

\* the second client entered its scope while the first was in its own, an
\* operation of the second failed and its scope was left with the exception:
\* the first client's session is still open and its caller holds a result
C25_Witness ==
    /\ peer.id = 1
    /\ peer.session = 1
    /\ 1 \notin closed
    /\ peer.last.op = "list_dashboards"
    /\ ~peer.last.raised
    /\ session = 0
    /\ left = [valid |-> TRUE, opened |-> 2, exc |-> TRUE]
    /\ closed = {2}

\* When the one scope entered on the client is left, on either path, the
\* session it opened is closed and the reference is dropped.
SoleScopeExitCloses ==
    [][(Len(scopes) = 1 /\ session = scopes[1] /\ scopes' = << >>) =>
            (scopes[1] \in closed' /\ session' = 0)]_vars

\* An invocation made while the client holds a session issues one request.
OneRequestWhileSessionHeld ==
    (~Idle /\ last.held # 0) => (last.requests = 1 /\ last.decoded <= 1)

====
